---- MODULE Spec2Model ----
(***************************************************************************)
(* A model of the configuration-override helpers and of the Logger class   *)
(* of utils/__init__.py:                                                    *)
(*   anytype2bool_dict, parse_string_to_dict, merge_to_dicts,               *)
(*   override_cfg_from_list, Logger.__init__/write/flush/close.             *)
(*                                                                          *)
(* Python values are tagged records [t |-> type name, ... payload].         *)
(* A str is a sequence of one-character strings, so that split, lower,      *)
(* int() and float() can be computed character by character.  A dict is a   *)
(* reference (type "dict", at |-> address) into a heap of mappings, so that *)
(* object identity, aliasing and in-place mutation can be expressed.        *)
(***************************************************************************)
EXTENDS Integers, Sequences, FiniteSets, TLC

\* ------------------------------------------------------------------------
\* Bounds of the explored inputs
\* ------------------------------------------------------------------------
MaxLen == 4       \* longest token handed to anytype2bool_dict
MaxPathLen == 5   \* longest dotted path handed to parse_string_to_dict
MaxOpts == 4      \* longest opts list handed to override_cfg_from_list
MaxLoggers == 2   \* most Logger objects constructed

\* ------------------------------------------------------------------------
\* Python values
\* ------------------------------------------------------------------------
\* Every value carries every field, so that any two values can be compared:
\* t the type name, b the payload of a bool, n of an int, f of a float, cs
\* the characters of a str, at the address of a dict object.  (m is the
\* content of a dict written as a value, see TreeV.)
ZeroF == [k |-> "fin", s |-> 1, m |-> 0, e |-> 0]
None == [t |-> "NoneType", b |-> FALSE, n |-> 0, f |-> ZeroF, cs |-> <<>>, at |-> 0,
         m |-> <<>>]
IntV(n) == [None EXCEPT !.t = "int", !.n = n]
BoolV(b) == [None EXCEPT !.t = "bool", !.b = b]
StrV(cs) == [None EXCEPT !.t = "str", !.cs = cs]
DictRef(addr) == [None EXCEPT !.t = "dict", !.at = addr]
FloatV(f) == [None EXCEPT !.t = "float", !.f = f]

\* A float is named by the shortest decimal that denotes it: sign s, digits m
\* (no trailing zero) and decimal exponent e, i.e. s * m * 10^e; or inf, nan.
Fin(s, m, e) == FloatV([k |-> "fin", s |-> s, m |-> m, e |-> e])
Inf(s) == FloatV([k |-> "inf", s |-> s, m |-> 0, e |-> 0])
NaN == FloatV([k |-> "nan", s |-> 1, m |-> 0, e |-> 0])

\* A configuration tree written as a value: the keys of a dict and, under
\* each, a scalar or a tree.
TreeV(m) == [None EXCEPT !.t = "dict", !.m = m]

type(x) == x.t
isinstance(x, tname) == x.t = tname

\* ------------------------------------------------------------------------
\* Characters and digits
\* ------------------------------------------------------------------------
DigitChars == <<"0", "1", "2", "3", "4", "5", "6", "7", "8", "9">>
UpperChars == <<"A", "B", "C", "D", "E", "F", "G", "H", "I", "J", "K", "L", "M",
                "N", "O", "P", "Q", "R", "S", "T", "U", "V", "W", "X", "Y", "Z">>
LowerChars == <<"a", "b", "c", "d", "e", "f", "g", "h", "i", "j", "k", "l", "m",
                "n", "o", "p", "q", "r", "s", "t", "u", "v", "w", "x", "y", "z">>

IsDigit(c) == \E i \in DOMAIN DigitChars : DigitChars[i] = c
DigitVal(c) == (CHOOSE i \in DOMAIN DigitChars : DigitChars[i] = c) - 1
IsSpace(c) == c = " "

LowerChar(c) ==
    IF \E i \in DOMAIN UpperChars : UpperChars[i] = c
    THEN LowerChars[CHOOSE i \in DOMAIN UpperChars : UpperChars[i] = c]
    ELSE c

\* str.lower()
lower(s) == [i \in DOMAIN s |-> LowerChar(s[i])]

RECURSIVE Pow10(_)
Pow10(n) == IF n <= 0 THEN 1 ELSE 10 * Pow10(n - 1)

RECURSIVE DigitsValue(_)
DigitsValue(ds) ==
    IF ds = <<>> THEN 0
    ELSE 10 * DigitsValue(SubSeq(ds, 1, Len(ds) - 1)) + DigitVal(ds[Len(ds)])

RECURSIVE NatToStr(_)
NatToStr(n) ==
    IF n < 10 THEN <<DigitChars[n + 1]>>
    ELSE NatToStr(n \div 10) \o <<DigitChars[(n % 10) + 1]>>

\* str(int)
IntToStr(n) == IF n < 0 THEN <<"-">> \o NatToStr(-n) ELSE NatToStr(n)

RECURSIVE Zeros(_)
Zeros(n) == IF n <= 0 THEN <<>> ELSE <<"0">> \o Zeros(n - 1)

\* ------------------------------------------------------------------------
\* int(s) and float(s) on a str: the literal grammars of the interpreter
\* ------------------------------------------------------------------------
RECURSIVE LStrip(_)
LStrip(s) == IF s # <<>> /\ IsSpace(Head(s)) THEN LStrip(Tail(s)) ELSE s

RECURSIVE RStrip(_)
RStrip(s) ==
    IF s # <<>> /\ IsSpace(s[Len(s)]) THEN RStrip(SubSeq(s, 1, Len(s) - 1)) ELSE s

Strip(s) == RStrip(LStrip(s))

HasSign(s) == s # <<>> /\ Head(s) \in {"+", "-"}
SignOf(s) == IF s # <<>> /\ Head(s) = "-" THEN -1 ELSE 1
Unsigned(s) == IF HasSign(s) THEN Tail(s) ELSE s

\* An underscore is accepted only between two digits.
UnderscoresOK(s) ==
    \A i \in DOMAIN s :
        s[i] = "_" => /\ i > 1
                      /\ i < Len(s)
                      /\ IsDigit(s[i - 1])
                      /\ IsDigit(s[i + 1])

NotUnderscore(c) == c # "_"
DropUnderscores(s) == SelectSeq(s, NotUnderscore)

AllDigits(s) == s # <<>> /\ \A i \in DOMAIN s : IsDigit(s[i])

\* int(s) succeeds: optional blanks, optional sign, digits (with underscores).
IsIntLiteral(s) ==
    LET u == Unsigned(Strip(s))
    IN  UnderscoresOK(u) /\ AllDigits(DropUnderscores(u))

IntLiteralValue(s) ==
    SignOf(Strip(s)) * DigitsValue(DropUnderscores(Unsigned(Strip(s))))

\* Position of the first e/E of s, or 0.
ExpMark(s) ==
    IF \E i \in DOMAIN s : s[i] \in {"e", "E"}
    THEN CHOOSE i \in DOMAIN s :
            /\ s[i] \in {"e", "E"}
            /\ \A j \in 1..(i - 1) : s[j] \notin {"e", "E"}
    ELSE 0

\* Position of the first "." of s, or 0.
DotMark(s) ==
    IF \E i \in DOMAIN s : s[i] = "."
    THEN CHOOSE i \in DOMAIN s : s[i] = "." /\ \A j \in 1..(i - 1) : s[j] # "."
    ELSE 0

MantissaPart(u) == IF ExpMark(u) = 0 THEN u ELSE SubSeq(u, 1, ExpMark(u) - 1)
ExponentPart(u) == IF ExpMark(u) = 0 THEN <<>> ELSE SubSeq(u, ExpMark(u) + 1, Len(u))
IntDigits(mt) == IF DotMark(mt) = 0 THEN mt ELSE SubSeq(mt, 1, DotMark(mt) - 1)
FracDigits(mt) == IF DotMark(mt) = 0 THEN <<>> ELSE SubSeq(mt, DotMark(mt) + 1, Len(mt))

\* digits [. [digits]] | . digits
IsMantissa(mt) ==
    /\ \A i \in DOMAIN IntDigits(mt) : IsDigit(IntDigits(mt)[i])
    /\ \A i \in DOMAIN FracDigits(mt) : IsDigit(FracDigits(mt)[i])
    /\ Len(IntDigits(mt)) + Len(FracDigits(mt)) > 0

\* the part after e/E: [sign] digits
IsExponent(ex) == AllDigits(Unsigned(ex))

SpecialFloats == {<<"i", "n", "f">>, <<"i", "n", "f", "i", "n", "i", "t", "y">>,
                  <<"n", "a", "n">>}

IsDecimalLiteral(u) ==
    /\ IsMantissa(MantissaPart(u))
    /\ ExpMark(u) # 0 => IsExponent(ExponentPart(u))

\* float(s) succeeds
IsFloatLiteral(s) ==
    LET b == Strip(s)
        u == Unsigned(b)
    IN  \/ lower(u) \in SpecialFloats
        \/ /\ UnderscoresOK(b)
           /\ IsDecimalLiteral(DropUnderscores(u))

RECURSIVE NumDigits(_)
NumDigits(n) == IF n < 10 THEN 1 ELSE 1 + NumDigits(n \div 10)

\* The double denoted by s * m * 10^e, m >= 0: trailing zeros of m move into
\* the exponent.  The largest finite double is 1.7976931348623157e308 and
\* the smallest 4.9e-324: a magnitude above is inf and one below is zero.
\* (Mantissas of up to 9 digits; the subnormal band 1e-324 .. 1e-308, where
\* doubles are no short decimals, is out of reach of the tokens explored.)
RECURSIVE Normal(_, _, _)
Normal(s, m, e) ==
    IF m = 0 THEN Fin(s, 0, 0)
    ELSE IF m % 10 = 0 THEN Normal(s, m \div 10, e + 1)
    ELSE LET adj == e + NumDigits(m) - 1
         IN  IF \/ adj > 308
                \/ adj = 308 /\ m * Pow10(9 - NumDigits(m)) > 179769313
             THEN Inf(s)
             ELSE IF adj < -324 THEN Fin(s, 0, 0)
             ELSE Fin(s, m, e)

FloatLiteralValue(s) ==
    LET b == Strip(s)
        u == Unsigned(b)
        d == DropUnderscores(u)
        mt == MantissaPart(d)
        ex == ExponentPart(d)
        xv == SignOf(ex) * DigitsValue(Unsigned(ex))
    IN  IF lower(u) = <<"n", "a", "n">> THEN NaN
        ELSE IF lower(u) \in SpecialFloats THEN Inf(SignOf(b))
        ELSE Normal(SignOf(b), DigitsValue(IntDigits(mt) \o FracDigits(mt)),
                    xv - Len(FracDigits(mt)))

\* ------------------------------------------------------------------------
\* Outcomes of a call: the value returned, or the exception raised
\* ------------------------------------------------------------------------
NoExc == "none"
Returns(x) == [exc |-> NoExc, r |-> x]
Raises(e) == [exc |-> e, r |-> None]

\* int(s) / float(s) for a str s
IntOfStr(s) ==
    IF IsIntLiteral(s.cs) THEN Returns(IntV(IntLiteralValue(s.cs)))
    ELSE Raises("ValueError")

FloatOfStr(s) ==
    IF IsFloatLiteral(s.cs) THEN Returns(FloatLiteralValue(s.cs))
    ELSE Raises("ValueError")

TrueStr == <<"t", "r", "u", "e">>
FalseStr == <<"f", "a", "l", "s", "e">>

\* anytype2bool_dict trying float(s) before int(s).
anytype2bool_dict_float_first(s) ==
    IF ~isinstance(s, "str") THEN Returns(s)
    ELSE IF FloatOfStr(s).exc = NoExc THEN FloatOfStr(s)
    ELSE IF lower(s.cs) \in {TrueStr, FalseStr} THEN Returns(BoolV(lower(s.cs) = TrueStr))
    ELSE IF IntOfStr(s).exc = NoExc THEN IntOfStr(s)
    ELSE Returns(s)

\* def anytype2bool_dict(s): a non-str is returned as it is; a str is tried
\* as int, then as true/false (case-insensitively), then as float, and is
\* returned as it is when every try fails.  Both excepts are bare.
anytype2bool_dict(s) ==
    IF ~isinstance(s, "str") THEN Returns(s)
    ELSE IF IntOfStr(s).exc = NoExc THEN IntOfStr(s)
    ELSE IF lower(s.cs) \in {TrueStr, FalseStr} THEN Returns(BoolV(lower(s.cs) = TrueStr))
    ELSE IF FloatOfStr(s).exc = NoExc THEN FloatOfStr(s)
    ELSE Returns(s)

\* ------------------------------------------------------------------------
\* The constructors int(x), float(x), bool(x), str(x) on scalars
\* ------------------------------------------------------------------------
\* repr of a float: fixed notation for 1e-4 <= |x| < 1e16, else scientific.
FloatToStr(f) ==
    LET sg == IF f.s < 0 THEN <<"-">> ELSE <<>>
        ds == NatToStr(f.m)
        n == Len(ds)
        decpt == n + f.e
        ex == decpt - 1
        ed == NatToStr(IF ex < 0 THEN -ex ELSE ex)
    IN  IF f.k = "nan" THEN <<"n", "a", "n">>
        ELSE IF f.k = "inf" THEN sg \o <<"i", "n", "f">>
        ELSE IF f.m = 0 THEN sg \o <<"0", ".", "0">>
        ELSE IF decpt > 16 \/ decpt < -3
             THEN sg \o <<ds[1]>>
                     \o (IF n > 1 THEN <<".">> \o SubSeq(ds, 2, n) ELSE <<>>)
                     \o <<"e", IF ex < 0 THEN "-" ELSE "+">>
                     \o (IF Len(ed) < 2 THEN <<"0">> ELSE <<>>) \o ed
        ELSE IF decpt <= 0 THEN sg \o <<"0", ".">> \o Zeros(-decpt) \o ds
        ELSE IF decpt < n
             THEN sg \o SubSeq(ds, 1, decpt) \o <<".">> \o SubSeq(ds, decpt + 1, n)
        ELSE sg \o ds \o Zeros(decpt - n) \o <<".", "0">>

\* int(x): truncation toward zero of a finite float
IntOfFloat(f) ==
    IF f.k = "nan" THEN Raises("ValueError")
    ELSE IF f.k = "inf" THEN Raises("OverflowError")
    ELSE IF f.e >= 0 THEN Returns(IntV(f.s * f.m * Pow10(f.e)))
    ELSE IF -f.e > 9 THEN Returns(IntV(0))
    ELSE Returns(IntV(f.s * (f.m \div Pow10(-f.e))))

FloatOfInt(n) == IF n < 0 THEN Normal(-1, -n, 0) ELSE Normal(1, n, 0)

py_int(x) ==
    CASE x.t = "int" -> Returns(x)
      [] x.t = "bool" -> Returns(IntV(IF x.b THEN 1 ELSE 0))
      [] x.t = "float" -> IntOfFloat(x.f)
      [] x.t = "str" -> IntOfStr(x)
      [] OTHER -> Raises("TypeError")

py_float(x) ==
    CASE x.t = "int" -> Returns(FloatOfInt(x.n))
      [] x.t = "bool" -> Returns(FloatOfInt(IF x.b THEN 1 ELSE 0))
      [] x.t = "float" -> Returns(x)
      [] x.t = "str" -> FloatOfStr(x)
      [] OTHER -> Raises("TypeError")

\* ------------------------------------------------------------------------
\* The heap: a sequence of mappings (dict objects), addressed by position
\* ------------------------------------------------------------------------
EmptyMap == <<>>
Alloc(h, m) == [h |-> Append(h, m), r |-> DictRef(Len(h) + 1)]

RECURSIVE repr(_, _)
RECURSIVE ReprItems(_, _, _)
RECURSIVE deepcopy(_, _)
RECURSIVE CopyItems(_, _, _, _)
RECURSIVE merge_to_dicts(_, _, _)
RECURSIVE MergeItems(_, _, _, _, _)
RECURSIVE Val(_, _)
RECURSIVE Reach(_, _)

\* The tree a value denotes: a dict reference is replaced by its content.
Val(h, x) ==
    IF x.t = "dict"
    THEN TreeV([k \in DOMAIN h[x.at] |-> Val(h, h[x.at][k])])
    ELSE x

\* The addresses of the dict objects reachable from a value.
Reach(h, x) ==
    IF x.t = "dict"
    THEN {x.at} \cup UNION {Reach(h, h[x.at][k]) : k \in DOMAIN h[x.at]}
    ELSE {}

\* repr(x).  The items of a dict are listed in the order the CHOOSE takes
\* them: insertion order is not part of the heap.  Keys and strings here hold
\* no quote or backslash, so a str is its characters between two quotes.
repr(h, x) ==
    CASE x.t = "str" -> <<"'">> \o x.cs \o <<"'">>
      [] x.t = "int" -> IntToStr(x.n)
      [] x.t = "bool" -> IF x.b THEN <<"T", "r", "u", "e">> ELSE <<"F", "a", "l", "s", "e">>
      [] x.t = "float" -> FloatToStr(x.f)
      [] x.t = "dict" -> <<"{">> \o ReprItems(h, h[x.at], DOMAIN h[x.at]) \o <<"}">>
      [] OTHER -> <<"N", "o", "n", "e">>

ReprItems(h, m, ks) ==
    IF ks = {} THEN <<>>
    ELSE LET k == CHOOSE kk \in ks : TRUE
         IN  repr(h, StrV(k)) \o <<":", " ">> \o repr(h, m[k])
                \o (IF ks = {k} THEN <<>> ELSE <<",", " ">>)
                \o ReprItems(h, m, ks \ {k})

\* bool(x)
py_bool(h, x) ==
    CASE x.t = "int" -> Returns(BoolV(x.n # 0))
      [] x.t = "bool" -> Returns(x)
      [] x.t = "float" -> Returns(BoolV(~(x.f.k = "fin" /\ x.f.m = 0)))
      [] x.t = "str" -> Returns(BoolV(Len(x.cs) > 0))
      [] x.t = "dict" -> Returns(BoolV(DOMAIN h[x.at] # {}))
      [] OTHER -> Returns(BoolV(FALSE))

\* str(x)
py_str(h, x) == IF x.t = "str" THEN Returns(x) ELSE Returns(StrV(repr(h, x)))

\* type(a)(b) for tname = type(a).  dict(b) of a str iterates its characters,
\* each of length 1 where a (key, value) pair is required: only the empty
\* str gives a dict, an empty one.
Construct(h, tname, b) ==
    LET c == CASE tname = "int" -> py_int(b)
               [] tname = "float" -> py_float(b)
               [] tname = "bool" -> py_bool(h, b)
               [] tname = "str" -> py_str(h, b)
               [] tname = "dict" ->
                     IF b.t = "str"
                     THEN IF Len(b.cs) = 0 THEN Returns(DictRef(Len(h) + 1))
                          ELSE Raises("ValueError")
                     ELSE Raises("TypeError")
               [] OTHER -> Raises("TypeError")
    IN  [h |-> IF tname = "dict" /\ c.exc = NoExc THEN Append(h, EmptyMap) ELSE h,
         r |-> c.r, exc |-> c.exc]

\* copy.deepcopy(x): a scalar is immutable and is returned itself; a dict is
\* copied into a new object, its values copied recursively.
deepcopy(h, x) ==
    IF x.t # "dict" THEN [h |-> h, r |-> x]
    ELSE LET c == CopyItems(h, h[x.at], DOMAIN h[x.at], EmptyMap)
         IN  Alloc(c.h, c.m)

CopyItems(h, src, ks, acc) ==
    IF ks = {} THEN [h |-> h, m |-> acc]
    ELSE LET k == CHOOSE kk \in ks : TRUE
             c == deepcopy(h, src[k])
         IN  CopyItems(c.h, src, ks \ {k}, acc @@ (k :> c.r))

\* every_key = set(a.keys()) | set(b.keys())
every_key(A, B) == DOMAIN A \cup DOMAIN B
a_and_b(A, B) == DOMAIN A \cap DOMAIN B

\* The dict comprehension of merge_to_dicts over the keys ks.  The keys of a
\* set come in no fixed order, so when values of several keys cannot be
\* merged, any of their exceptions may be the one raised: excs holds them.
MergeItems(h, A, B, ks, acc) ==
    IF ks = {} THEN [h |-> h, m |-> acc, excs |-> {}]
    ELSE LET k == CHOOSE kk \in ks : TRUE
             one == IF k \in a_and_b(A, B)
                    THEN merge_to_dicts(h, A[k], B[k])
                    ELSE LET c == deepcopy(h, IF k \in DOMAIN A THEN A[k] ELSE B[k])
                         IN  [h |-> c.h, r |-> c.r, excs |-> {}]
             rest == MergeItems(one.h, A, B, ks \ {k}, acc @@ (k :> one.r))
         IN  [h |-> rest.h, m |-> rest.m, excs |-> one.excs \cup rest.excs]

\* merge_to_dicts updating its first argument in place and returning it.
merge_to_dicts_in_place(h, a, b) ==
    IF isinstance(b, "dict") /\ isinstance(a, "dict")
    THEN LET it == MergeItems(h, h[a.at], h[b.at], every_key(h[a.at], h[b.at]), EmptyMap)
         IN  IF it.excs # {} THEN [h |-> it.h, r |-> None, excs |-> it.excs]
             ELSE [h |-> [it.h EXCEPT ![a.at] = it.m], r |-> a, excs |-> {}]
    ELSE LET c == Construct(h, type(a), b)
         IN  IF c.exc # NoExc THEN [h |-> h, r |-> None, excs |-> {c.exc}]
             ELSE LET d == deepcopy(c.h, c.r)
                  IN  [h |-> d.h, r |-> d.r, excs |-> {}]

\* merge_to_dicts ending in deepcopy(b): the override is not cast.
merge_to_dicts_no_cast(h, a, b) ==
    IF isinstance(b, "dict") /\ isinstance(a, "dict")
    THEN LET it == MergeItems(h, h[a.at], h[b.at], every_key(h[a.at], h[b.at]), EmptyMap)
         IN  IF it.excs # {} THEN [h |-> it.h, r |-> None, excs |-> it.excs]
             ELSE [h |-> Append(it.h, it.m), r |-> DictRef(Len(it.h) + 1), excs |-> {}]
    ELSE LET d == deepcopy(h, b)
         IN  [h |-> d.h, r |-> d.r, excs |-> {}]

\* def merge_to_dicts(a, b): two dicts are merged key by key into a new
\* dict; otherwise the result is deepcopy(type(a)(b)).
merge_to_dicts(h, a, b) ==
    IF isinstance(b, "dict") /\ isinstance(a, "dict")
    THEN LET it == MergeItems(h, h[a.at], h[b.at], every_key(h[a.at], h[b.at]), EmptyMap)
         IN  IF it.excs # {} THEN [h |-> it.h, r |-> None, excs |-> it.excs]
             ELSE [h |-> Append(it.h, it.m), r |-> DictRef(Len(it.h) + 1), excs |-> {}]
    ELSE LET c == Construct(h, type(a), b)
         IN  IF c.exc # NoExc THEN [h |-> h, r |-> None, excs |-> {c.exc}]
             ELSE LET d == deepcopy(c.h, c.r)
                  IN  [h |-> d.h, r |-> d.r, excs |-> {}]

\* field_name.split('.')
RECURSIVE split(_)
split(s) ==
    IF DotMark(s) = 0 THEN <<s>>
    ELSE <<SubSeq(s, 1, DotMark(s) - 1)>> \o split(SubSeq(s, DotMark(s) + 1, Len(s)))

Reverse(q) == [i \in DOMAIN q |-> q[Len(q) + 1 - i]]

\* for fd in fds: res = {fd: anytype2bool_dict(value)}; value = res
RECURSIVE NestLoop(_, _, _)
NestLoop(h, fds, value) ==
    IF fds = <<>> THEN [h |-> h, r |-> value, exc |-> NoExc]
    ELSE LET c == anytype2bool_dict(value)
             res == Alloc(h, Head(fds) :> c.r)
         IN  IF c.exc # NoExc THEN [h |-> h, r |-> None, exc |-> c.exc]
             ELSE NestLoop(res.h, Tail(fds), res.r)

\* parse_string_to_dict looping over fields instead of fields[::-1].
parse_string_to_dict_not_reversed(h, field_name, value) ==
    NestLoop(h, split(field_name.cs), value)

\* def parse_string_to_dict(field_name, value)
parse_string_to_dict(h, field_name, value) ==
    NestLoop(h, Reverse(split(field_name.cs)), value)

\* ------------------------------------------------------------------------
\* State
\* ------------------------------------------------------------------------
VARIABLES
    heap,        \* the dict objects
    snap,        \* the heap as it was when the call was made
    base,        \* the caller's first argument
    opts,        \* the caller's list argument (the arguments, for a helper)
    pc,          \* where the call stands
    ix,          \* loop index of override_cfg_from_list
    cfg,         \* local cfg of override_cfg_from_list
    opts_dict,   \* local opts_dict (the second argument of merge_to_dicts)
    ret,         \* the value returned
    exc,         \* the exception raised
    sys_stdout,  \* sys.stdout
    sys_stderr,  \* sys.stderr
    loggers,     \* the Logger objects, in order of construction
    routed,      \* the Loggers whose write() ran in the last write
    received,    \* the files and console streams the last write reached
    lexc         \* the exception of the last Logger operation

cfgVars == <<heap, snap, base, opts, pc, ix, cfg, opts_dict, ret, exc>>
logVars == <<sys_stdout, sys_stderr, loggers, routed, received, lexc>>
vars == <<heap, snap, base, opts, pc, ix, cfg, opts_dict, ret, exc,
          sys_stdout, sys_stderr, loggers, routed, received, lexc>>

\* The console streams installed before any Logger exists.
ConsoleOut == 0
ConsoleErr == -1

LogIdle ==
    /\ sys_stdout = ConsoleOut
    /\ sys_stderr = ConsoleErr
    /\ loggers = <<>>
    /\ routed = {}
    /\ received = {}
    /\ lexc = NoExc

CfgIdle ==
    /\ heap = <<>>
    /\ snap = <<>>
    /\ base = None
    /\ opts = <<>>
    /\ pc = "idle"
    /\ ix = 0
    /\ cfg = None
    /\ opts_dict = None
    /\ ret = None
    /\ exc = NoExc

\* ------------------------------------------------------------------------
\* Inputs
\* ------------------------------------------------------------------------
RECURSIVE StringsOfLen(_, _)
StringsOfLen(alphabet, n) ==
    IF n = 0 THEN {<<>>}
    ELSE {Append(s, c) : s \in StringsOfLen(alphabet, n - 1), c \in alphabet}

StringsUpTo(alphabet, n) == UNION {StringsOfLen(alphabet, k) : k \in 0..n}

Mappings(keys, values) == UNION {[d -> values] : d \in SUBSET keys}

RECURSIVE Build(_, _)
RECURSIVE BuildItems(_, _, _, _)
\* The heap after a tree has been constructed in it.
Build(h, tv) ==
    IF tv.t # "dict" THEN [h |-> h, r |-> tv]
    ELSE LET c == BuildItems(h, tv.m, DOMAIN tv.m, EmptyMap)
         IN  Alloc(c.h, c.m)

BuildItems(h, src, ks, acc) ==
    IF ks = {} THEN [h |-> h, m |-> acc]
    ELSE LET k == CHOOSE kk \in ks : TRUE
             c == Build(h, src[k])
         IN  BuildItems(c.h, src, ks \ {k}, acc @@ (k :> c.r))

Float15 == Fin(1, 15, -1)
InnerKeys == {<<"b">>, <<"c">>}
BaseLeaves == {IntV(1), BoolV(TRUE), Float15, StrV(<<"x">>)}
InnerLeaves == {IntV(1), StrV(<<"x">>)}
InnerTrees == {TreeV(m) : m \in Mappings(InnerKeys, InnerLeaves)}
\* Base configurations: key "a" absent, a scalar of each type or a mapping
\* over the keys b and c; key "b" absent or an int.
BaseTrees ==
    {TreeV(ma @@ mb) : ma \in Mappings({<<"a">>}, BaseLeaves \cup InnerTrees),
                       mb \in Mappings({<<"b">>}, {IntV(1)})}

OptPaths == {<<"a">>, <<"a", ".", "b">>, <<"b">>}
RawValues == {<<"1">>, <<"2">>, <<"t", "r", "u", "e">>, <<"1", ".", "5">>, <<"x">>, <<>>}

RECURSIVE OptsOfLen(_)
OptsOfLen(n) ==
    IF n = 0 THEN {<<>>}
    ELSE {Append(o, StrV(tk)) : o \in OptsOfLen(n - 1),
                                tk \in IF n % 2 = 1 THEN OptPaths ELSE RawValues}

OptsLists == UNION {OptsOfLen(n) : n \in 0..MaxOpts}

\* ------------------------------------------------------------------------
\* override_cfg_from_list(cfg, opts), statement by statement
\* ------------------------------------------------------------------------
CfgInit ==
    /\ \E tv \in BaseTrees :
          LET b == Build(<<>>, tv)
          IN  /\ heap = b.h
              /\ snap = b.h
              /\ base = b.r
              /\ cfg = b.r
    /\ opts \in OptsLists
    /\ pc = "call"
    /\ ix = 0
    /\ opts_dict = None
    /\ ret = None
    /\ exc = NoExc
    /\ LogIdle

\* The assert compiled away: the loop is entered whatever the length.
AssertPairedStripped ==
    /\ pc = "call"
    /\ pc' = "loop"
    /\ UNCHANGED <<heap, snap, base, opts, ix, cfg, opts_dict, ret, exc>>
    /\ UNCHANGED logVars

\* assert len(opts) % 2 == 0, '...'
AssertPaired ==
    /\ pc = "call"
    /\ IF Len(opts) % 2 = 0
       THEN pc' = "loop" /\ exc' = exc
       ELSE pc' = "raised" /\ exc' = "AssertionError"
    /\ UNCHANGED <<heap, snap, base, opts, ix, cfg, opts_dict, ret>>
    /\ UNCHANGED logVars

\* One turn of the loop with the arguments of the merge exchanged.
ApplyPairSwapped ==
    /\ pc = "loop"
    /\ ix < Len(opts)
    /\ IF ix + 2 > Len(opts)
       THEN /\ pc' = "raised"
            /\ exc' = "IndexError"
            /\ UNCHANGED <<heap, ix, cfg, opts_dict>>
       ELSE LET p == parse_string_to_dict(heap, opts[ix + 1], opts[ix + 2])
                m == merge_to_dicts(p.h, p.r, cfg)
            IN  /\ opts_dict' = p.r
                /\ IF m.excs = {}
                   THEN /\ heap' = m.h
                        /\ cfg' = m.r
                        /\ ix' = ix + 2
                        /\ pc' = "loop"
                        /\ exc' = exc
                   ELSE /\ heap' = p.h
                        /\ pc' = "raised"
                        /\ exc' \in m.excs
                        /\ UNCHANGED <<ix, cfg>>
    /\ UNCHANGED <<snap, base, opts, ret>>
    /\ UNCHANGED logVars

\* for ix in range(0, len(opts), 2):
\*     opts_dict = parse_string_to_dict(opts[ix], opts[ix + 1])
\*     cfg = merge_to_dicts(cfg, opts_dict)
\* (opts is indexed from 1 here; opts[ix + 1] past the end is an IndexError.)
ApplyPair ==
    /\ pc = "loop"
    /\ ix < Len(opts)
    /\ IF ix + 2 > Len(opts)
       THEN /\ pc' = "raised"
            /\ exc' = "IndexError"
            /\ UNCHANGED <<heap, ix, cfg, opts_dict>>
       ELSE LET p == parse_string_to_dict(heap, opts[ix + 1], opts[ix + 2])
                m == merge_to_dicts(p.h, cfg, p.r)
            IN  /\ opts_dict' = p.r
                /\ IF m.excs = {}
                   THEN /\ heap' = m.h
                        /\ cfg' = m.r
                        /\ ix' = ix + 2
                        /\ pc' = "loop"
                        /\ exc' = exc
                   ELSE /\ heap' = p.h
                        /\ pc' = "raised"
                        /\ exc' \in m.excs
                        /\ UNCHANGED <<ix, cfg>>
    /\ UNCHANGED <<snap, base, opts, ret>>
    /\ UNCHANGED logVars

\* return cfg
ReturnCfg ==
    /\ pc = "loop"
    /\ ix >= Len(opts)
    /\ pc' = "returned"
    /\ ret' = cfg
    /\ UNCHANGED <<heap, snap, base, opts, ix, cfg, opts_dict, exc>>
    /\ UNCHANGED logVars

Next == AssertPaired \/ ApplyPair \/ ReturnCfg

Spec == CfgInit /\ [][Next]_vars

\* ------------------------------------------------------------------------
\* merge_to_dicts(a, b) called on two configuration trees
\* ------------------------------------------------------------------------
MergeLeaves == {IntV(2), BoolV(FALSE), Float15, StrV(<<"x">>), StrV(<<"2">>), StrV(<<>>)}
MergeInner == {TreeV(m) : m \in Mappings({<<"c">>}, {IntV(2), StrV(<<"x">>)})}
MergeTrees == {TreeV(m) : m \in Mappings({<<"a">>, <<"b">>}, MergeLeaves \cup MergeInner)}

MergeInit ==
    /\ \E ta \in MergeTrees, tb \in MergeTrees :
          LET A == Build(<<>>, ta)
              B == Build(A.h, tb)
          IN  /\ heap = B.h
              /\ snap = B.h
              /\ base = A.r
              /\ cfg = A.r
              /\ opts_dict = B.r
    /\ opts = <<>>
    /\ pc = "merge"
    /\ ix = 0
    /\ ret = None
    /\ exc = NoExc
    /\ LogIdle

\* ret = merge_to_dicts(base, opts_dict)
MergeCall ==
    /\ pc = "merge"
    /\ LET m == merge_to_dicts(heap, base, opts_dict)
       IN  IF m.excs = {}
           THEN /\ heap' = m.h
                /\ ret' = m.r
                /\ pc' = "returned"
                /\ exc' = exc
           ELSE /\ pc' = "raised"
                /\ exc' \in m.excs
                /\ UNCHANGED <<heap, ret>>
    /\ UNCHANGED <<snap, base, opts, ix, cfg, opts_dict>>
    /\ UNCHANGED logVars

MergeNext == MergeCall

SpecMerge == MergeInit /\ [][MergeNext]_vars

\* ------------------------------------------------------------------------
\* parse_string_to_dict(field_name, value) called on a path and a value
\* ------------------------------------------------------------------------
PathChars == {"a", "b", "."}
ParseValues ==
    {StrV(<<"5">>), StrV(<<"x">>), StrV(<<"t", "r", "u", "e">>), StrV(<<"1", ".", "5">>),
     StrV(<<>>), IntV(3), BoolV(TRUE), Float15}

ParseInit ==
    /\ \E p \in StringsUpTo(PathChars, MaxPathLen), v \in ParseValues :
          opts = <<StrV(p), v>>
    /\ heap = <<>>
    /\ snap = <<>>
    /\ base = None
    /\ cfg = None
    /\ opts_dict = None
    /\ pc = "parse"
    /\ ix = 0
    /\ ret = None
    /\ exc = NoExc
    /\ LogIdle

\* ret = parse_string_to_dict(opts[0], opts[1])
ParseCall ==
    /\ pc = "parse"
    /\ LET p == parse_string_to_dict(heap, opts[1], opts[2])
       IN  /\ heap' = p.h
           /\ ret' = p.r
           /\ exc' = p.exc
           /\ pc' = IF p.exc = NoExc THEN "returned" ELSE "raised"
    /\ UNCHANGED <<snap, base, opts, ix, cfg, opts_dict>>
    /\ UNCHANGED logVars

ParseNext == ParseCall

SpecParse == ParseInit /\ [][ParseNext]_vars

\* ------------------------------------------------------------------------
\* anytype2bool_dict(s) called on a token or on a value that is no str
\* ------------------------------------------------------------------------
TokenChars == {"1", "5", ".", "-", "_", "e", " ", "x"}
ExtraTokens ==
    {<<"t", "r", "u", "e">>, <<"T", "r", "u", "e">>, <<"T", "R", "U", "E">>,
     <<"t", "R", "u", "E">>, <<"f", "a", "l", "s", "e">>, <<"F", "a", "l", "s", "e">>,
     <<"F", "A", "L", "S", "E">>, <<" ", "t", "r", "u", "e">>, <<"t", "r", "u", "e", "e">>,
     <<"n", "a", "n">>, <<"i", "n", "f">>, <<"-", "I", "n", "f">>,
     <<"a", "b", "c">>, <<"5", ".", "5">>, <<"+", "5">>, <<"1", "0">>, <<"0", ".", "0">>,
     <<"1", "E", "5">>, <<"1", "e", "5", "5", "5">>}
Tokens == StringsUpTo(TokenChars, MaxLen) \cup ExtraTokens
NonStrings == {IntV(5), BoolV(TRUE), Float15, None, DictRef(1)}

CoerceInit ==
    /\ \E a \in {StrV(tk) : tk \in Tokens} \cup NonStrings : opts = <<a>>
    /\ heap = <<EmptyMap>>
    /\ snap = <<EmptyMap>>
    /\ base = None
    /\ cfg = None
    /\ opts_dict = None
    /\ pc = "coerce"
    /\ ix = 0
    /\ ret = None
    /\ exc = NoExc
    /\ LogIdle

\* ret = anytype2bool_dict(opts[0])
CoerceCall ==
    /\ pc = "coerce"
    /\ LET c == anytype2bool_dict(opts[1])
       IN  /\ ret' = c.r
           /\ exc' = c.exc
           /\ pc' = IF c.exc = NoExc THEN "returned" ELSE "raised"
    /\ UNCHANGED <<heap, snap, base, opts, ix, cfg, opts_dict>>
    /\ UNCHANGED logVars

CoerceNext == CoerceCall

SpecCoerce == CoerceInit /\ [][CoerceNext]_vars

\* ------------------------------------------------------------------------
\* class Logger.  A stream is a console stream (ConsoleOut, ConsoleErr) or
\* the position of a Logger in loggers.  file is "none" (self.file is None),
\* "open" or "closed"; closed records that close() has returned.
\* ------------------------------------------------------------------------
IsLogger(st) == st >= 1

RECURSIVE LoggerFlush(_, _)
\* st.flush(): def flush(self) for a Logger; a console stream just flushes.
\* Flushing a closed file raises ValueError.
LoggerFlush(L, st) ==
    IF ~IsLogger(st) THEN NoExc
    ELSE IF L[st].file = "closed" THEN "ValueError"
    ELSE LoggerFlush(L, L[st].stdout)

RECURSIVE LoggerWrite(_, _)
\* st.write(text) for a text that is not empty: the Loggers whose write()
\* ran, the files and console streams the text reached, and the exception.
\* Writing to a closed file raises ValueError.
LoggerWrite(L, st) ==
    IF ~IsLogger(st) THEN [routed |-> {}, received |-> {st}, exc |-> NoExc]
    ELSE IF L[st].file = "closed"
         THEN [routed |-> {st}, received |-> {}, exc |-> "ValueError"]
    ELSE LET mine == IF L[st].file = "open" THEN {st} ELSE {}
             down == LoggerWrite(L, L[st].stdout)
         IN  [routed |-> {st} \cup down.routed,
              received |-> mine \cup down.received,
              exc |-> IF down.exc # NoExc THEN down.exc
                      ELSE IF L[st].should_flush THEN LoggerFlush(L, st)
                      ELSE NoExc]

LoggerInit ==
    /\ LogIdle
    /\ CfgIdle

\* Logger(file_name, file_mode, should_flush)
LoggerNew ==
    /\ Len(loggers) < MaxLoggers
    /\ \E has_file \in BOOLEAN, flush \in BOOLEAN :
          loggers' = Append(loggers,
                            [file |-> IF has_file THEN "open" ELSE "none",
                             should_flush |-> flush,
                             stdout |-> sys_stdout,
                             stderr |-> sys_stderr,
                             closed |-> FALSE])
    /\ sys_stdout' = Len(loggers) + 1
    /\ sys_stderr' = Len(loggers) + 1
    /\ lexc' = NoExc
    /\ UNCHANGED <<routed, received>>
    /\ UNCHANGED cfgVars

\* st.write(text), st being sys.stdout or sys.stderr
WriteTo(st, empty) ==
    /\ IF empty /\ IsLogger(st)
       THEN /\ routed' = {st}
            /\ received' = {}
            /\ lexc' = NoExc
       ELSE LET w == LoggerWrite(loggers, st)
            IN  /\ routed' = w.routed
                /\ received' = w.received
                /\ lexc' = w.exc
    /\ UNCHANGED <<sys_stdout, sys_stderr, loggers>>
    /\ UNCHANGED cfgVars

\* sys.stdout.write(text)
WriteStdout == \E empty \in BOOLEAN : WriteTo(sys_stdout, empty)

\* sys.stderr.write(text)
WriteStderr == \E empty \in BOOLEAN : WriteTo(sys_stderr, empty)

\* loggers[i].close(), for a Logger whose close() has not returned yet
LoggerClose ==
    \E i \in DOMAIN loggers :
        /\ ~loggers[i].closed
        /\ LET e == LoggerFlush(loggers, i)
           IN  IF e # NoExc
               THEN /\ lexc' = e
                    /\ UNCHANGED <<sys_stdout, sys_stderr, loggers>>
               ELSE /\ lexc' = NoExc
                    /\ sys_stdout' = IF sys_stdout = i THEN loggers[i].stdout ELSE sys_stdout
                    /\ sys_stderr' = IF sys_stderr = i THEN loggers[i].stderr ELSE sys_stderr
                    /\ loggers' = [loggers EXCEPT
                                     ![i].file = IF @ = "none" THEN "none" ELSE "closed",
                                     ![i].closed = TRUE]
        /\ UNCHANGED <<routed, received>>
        /\ UNCHANGED cfgVars

LoggerNext == LoggerNew \/ WriteStdout \/ WriteStderr \/ LoggerClose

SpecLogger == LoggerInit /\ [][LoggerNext]_vars

\* ------------------------------------------------------------------------
\* Properties.  Trees are compared as values (Val), objects by address.
\* ------------------------------------------------------------------------
RECURSIVE KeyPaths(_)
\* The key paths of a tree: every sequence of keys leading to a value.
KeyPaths(tv) ==
    IF tv.t # "dict" THEN {}
    ELSE UNION {{<<k>>} \cup {<<k>> \o p : p \in KeyPaths(tv.m[k])} : k \in DOMAIN tv.m}

RECURSIVE HasPath(_, _)
HasPath(tv, p) ==
    \/ p = <<>>
    \/ /\ tv.t = "dict"
       /\ Head(p) \in DOMAIN tv.m
       /\ HasPath(tv.m[Head(p)], Tail(p))

RECURSIVE At(_, _)
\* The value under the key path p of a tree that has it.
At(tv, p) == IF p = <<>> THEN tv ELSE At(tv.m[Head(p)], Tail(p))

IsScalar(x) == x.t \in {"int", "bool", "float", "str"}

\* The trees of the call in progress.
BaseBefore == Val(snap, base)
BaseNow == Val(heap, base)
Result == Val(heap, ret)

\* C1: override_cfg_from_list(base, opts) with opts of even length does not
\* mutate base: at every moment of the call, and after it has returned or
\* raised, every dict object that existed when the call was made holds what
\* it held then, so base is equal at every nesting level to its snapshot.
C1_BaseNotMutated ==
    Len(opts) % 2 = 0 =>
        /\ Len(heap) >= Len(snap)
        /\ \A i \in DOMAIN snap : heap[i] = snap[i]
        /\ BaseNow = BaseBefore

\* Two pairs were applied, the call returned a tree that differs from base.
C1_Witness ==
    /\ pc = "returned"
    /\ Len(opts) = 4
    /\ Result # BaseBefore
    /\ BaseNow = BaseBefore

\* C2: with opts of odd length the call raises (an AssertionError) at its
\* first statement: the loop is never entered, no pair is parsed or merged,
\* nothing is returned and no dict object is touched or created.
C2_OddLengthFailsFirst ==
    Len(opts) % 2 = 1 =>
        /\ pc \in {"call", "raised"}
        /\ pc = "raised" => exc = "AssertionError"
        /\ ix = 0
        /\ opts_dict = None
        /\ cfg = base
        /\ ret = None
        /\ heap = snap

\* A call with three tokens has raised.
C2_Witness ==
    /\ pc = "raised"
    /\ Len(opts) = 3
    /\ exc = "AssertionError"
    /\ heap = snap

\* C9: the tree returned by override_cfg_from_list shares no dict object
\* with base nor with the last override mapping, whatever the even-length
\* opts, the empty list included.
C9_ResultAliasesNoInput ==
    pc = "returned" =>
        Reach(heap, ret) \cap (Reach(heap, base) \cup Reach(heap, opts_dict)) = {}

\* Tokens whose coercion is known from the interpreter, with their results.
CoerceExamples ==
    {<<StrV(<<"5">>), IntV(5)>>,
     <<StrV(<<"-", "1">>), IntV(-1)>>,
     <<StrV(<<"+", "5">>), IntV(5)>>,
     <<StrV(<<" ", "5", " ">>), IntV(5)>>,
     <<StrV(<<"1", "_", "5">>), IntV(15)>>,
     <<StrV(<<"1", "0">>), IntV(10)>>,
     <<StrV(<<"t", "r", "u", "e">>), BoolV(TRUE)>>,
     <<StrV(<<"T", "r", "u", "e">>), BoolV(TRUE)>>,
     <<StrV(<<"t", "R", "u", "E">>), BoolV(TRUE)>>,
     <<StrV(<<"F", "A", "L", "S", "E">>), BoolV(FALSE)>>,
     <<StrV(<<"f", "a", "l", "s", "e">>), BoolV(FALSE)>>,
     <<StrV(<<"5", ".", "5">>), Fin(1, 55, -1)>>,
     <<StrV(<<"1", ".", "5">>), Fin(1, 15, -1)>>,
     <<StrV(<<"-", ".", "5">>), Fin(-1, 5, -1)>>,
     <<StrV(<<"5", ".">>), Fin(1, 5, 0)>>,
     <<StrV(<<"1", "e", "5">>), Fin(1, 1, 5)>>,
     <<StrV(<<"1", "E", "5">>), Fin(1, 1, 5)>>,
     <<StrV(<<"0", ".", "0">>), Fin(1, 0, 0)>>,
     <<StrV(<<"1", "e", "5", "5", "5">>), Inf(1)>>,
     <<StrV(<<"-", "I", "n", "f">>), Inf(-1)>>,
     <<StrV(<<"n", "a", "n">>), NaN>>,
     <<StrV(<<"a", "b", "c">>), StrV(<<"a", "b", "c">>)>>,
     <<StrV(<<" ", "t", "r", "u", "e">>), StrV(<<" ", "t", "r", "u", "e">>)>>,
     <<StrV(<<"t", "r", "u", "e", "e">>), StrV(<<"t", "r", "u", "e", "e">>)>>,
     <<StrV(<<"1", " ", "5">>), StrV(<<"1", " ", "5">>)>>,
     <<StrV(<<"_", "1">>), StrV(<<"_", "1">>)>>,
     <<StrV(<<"e", "5">>), StrV(<<"e", "5">>)>>,
     <<StrV(<<"-">>), StrV(<<"-">>)>>,
     <<StrV(<<".">>), StrV(<<".">>)>>,
     <<StrV(<<>>), StrV(<<>>)>>}

\* C7: anytype2bool_dict(s) never raises; a str that is an int literal gives
\* that int; otherwise one equal to "true" or "false" whatever the case
\* gives the bool; otherwise one that is a float literal gives that float;
\* otherwise the str itself is returned; and a value that is no str is
\* returned as it is.
C7_CoercionOrder ==
    pc # "coerce" =>
        /\ pc = "returned"
        /\ exc = NoExc
        /\ LET s == opts[1]
           IN  IF s.t # "str" THEN ret = s
               ELSE IF IsIntLiteral(s.cs)
                    THEN ret = IntV(IntLiteralValue(s.cs))
               ELSE IF lower(s.cs) \in {TrueStr, FalseStr}
                    THEN ret = BoolV(lower(s.cs) = TrueStr)
               ELSE IF IsFloatLiteral(s.cs)
                    THEN ret.t = "float" /\ ret = FloatLiteralValue(s.cs)
               ELSE ret = s
        /\ \A ex \in CoerceExamples : opts[1] = ex[1] => ret = ex[2]

\* A str that is no int and no true/false was returned as a float.
C7_Witness ==
    /\ pc = "returned"
    /\ opts[1] = StrV(<<"1", ".", "5">>)
    /\ ret = Fin(1, 15, -1)

RECURSIVE ChainKeys(_)
\* The keys met going down a tree for as long as it is a one-key mapping.
ChainKeys(tv) ==
    IF tv.t = "dict" /\ Cardinality(DOMAIN tv.m) = 1
    THEN LET k == CHOOSE kk \in DOMAIN tv.m : TRUE
         IN  <<k>> \o ChainKeys(tv.m[k])
    ELSE <<>>

RECURSIVE JoinDots(_)
\* '.'.join(keys)
JoinDots(keys) ==
    IF Len(keys) = 1 THEN keys[1]
    ELSE keys[1] \o <<".">> \o JoinDots(Tail(keys))

CountDots(s) == Cardinality({i \in DOMAIN s : s[i] = "."})

\* C8: parse_string_to_dict(path, value) returns a single-branch nesting:
\* one key per segment of the path cut at its dots (and nowhere else, so the
\* keys joined by dots give the path back and no key holds a dot), one new
\* one-key dict per segment, and under the last key the coerced value.
C8_SingleBranchNesting ==
    pc # "parse" =>
        LET keys == ChainKeys(Result)
            path == opts[1].cs
        IN  /\ pc = "returned"
            /\ exc = NoExc
            /\ Len(keys) = CountDots(path) + 1
            /\ JoinDots(keys) = path
            /\ \A i \in DOMAIN keys : CountDots(keys[i]) = 0
            /\ At(Result, keys) = anytype2bool_dict(opts[2]).r
            /\ IsScalar(At(Result, keys))
            /\ Len(heap) = Len(keys)
            /\ \A i \in DOMAIN heap : Cardinality(DOMAIN heap[i]) = 1
            /\ ret = DictRef(Len(heap))
            /\ (path = <<"a", ".", "b">> /\ opts[2] = StrV(<<"5">>))
                  => Result = TreeV(<<"a">> :> TreeV(<<"b">> :> IntV(5)))

\* "a.b.a" with "5" gave {"a": {"b": {"a": 5}}}.
C8_Witness ==
    /\ pc = "returned"
    /\ opts = <<StrV(<<"a", ".", "b", ".", "a">>), StrV(<<"5">>)>>
    /\ Result = TreeV(<<"a">> :> TreeV(<<"b">> :> TreeV(<<"a">> :> IntV(5))))

\* The arguments of merge_to_dicts as trees, and the key paths both hold
\* with a scalar on either side.
Override == Val(heap, opts_dict)
ScalarConflicts ==
    {p \in KeyPaths(BaseBefore) \cap KeyPaths(Override) :
        IsScalar(At(BaseBefore, p)) /\ IsScalar(At(Override, p))}

\* Conversions known from the interpreter: <<type of the base's value, the
\* override's value, type(base value)(override value)>>.
CastTable ==
    {<<"int", BoolV(FALSE), IntV(0)>>,
     <<"int", Float15, IntV(1)>>,
     <<"int", StrV(<<"2">>), IntV(2)>>,
     <<"bool", IntV(2), BoolV(TRUE)>>,
     <<"bool", Float15, BoolV(TRUE)>>,
     <<"bool", StrV(<<"x">>), BoolV(TRUE)>>,
     <<"bool", StrV(<<"2">>), BoolV(TRUE)>>,
     <<"bool", StrV(<<>>), BoolV(FALSE)>>,
     <<"float", IntV(2), Fin(1, 2, 0)>>,
     <<"float", BoolV(FALSE), Fin(1, 0, 0)>>,
     <<"float", StrV(<<"2">>), Fin(1, 2, 0)>>,
     <<"str", IntV(2), StrV(<<"2">>)>>,
     <<"str", BoolV(FALSE), StrV(<<"F", "a", "l", "s", "e">>)>>,
     <<"str", Float15, StrV(<<"1", ".", "5">>)>>}

\* Conversions that raise ValueError: <<type of the base's value, override>>.
CastFails ==
    {<<"int", StrV(<<"x">>)>>, <<"int", StrV(<<>>)>>,
     <<"float", StrV(<<"x">>)>>, <<"float", StrV(<<>>)>>}

PairPath(i) == split(opts[i].cs)
PairValue(i) == anytype2bool_dict(opts[i + 1]).r
Prefixes(p) == {SubSeq(p, 1, n) : n \in 1..Len(p)}
Finished == pc \in {"returned", "raised"}

\* C4 as stated: a single override whose path meets, in base, a mapping
\* where the override holds a scalar, or a scalar where the override holds a
\* mapping, returns, and the result holds the override's value there.
C4_SubtreeReplaced ==
    (Finished /\ Len(opts) = 2) =>
        \A q \in Prefixes(PairPath(1)) :
            (/\ HasPath(BaseBefore, q)
             /\ (At(BaseBefore, q).t = "dict") # (At(Override, q).t = "dict"))
            => /\ pc = "returned"
               /\ At(Result, q) = At(Override, q)

\* type(x)(c) for a scalar x: the value, or the exception raised.
Cast(x, c) == Construct(<<>>, type(x), c)

\* The longest prefix of the path p that base holds.
Held(p) ==
    CHOOSE q \in Prefixes(p) \cup {<<>>} :
        /\ HasPath(BaseBefore, q)
        /\ \A r \in Prefixes(p) : HasPath(BaseBefore, r) => Len(r) <= Len(q)

C6_NoBaseKeyDeleted ==
    pc = "returned" =>
        \A p \in KeyPaths(BaseBefore) : HasPath(Result, p)

\* C10: once every Logger constructed has been closed, in whatever order,
\* sys.stdout and sys.stderr are the streams installed before the first
\* Logger was constructed.
C10_StreamsRestored ==
    (loggers # <<>> /\ \A i \in DOMAIN loggers : loggers[i].closed) =>
        /\ sys_stdout = ConsoleOut
        /\ sys_stderr = ConsoleErr

====
